---- MODULE Spec2Model ----
(***************************************************************************)
(* Model of fix_database.py: main() walks the three configured nodes in    *)
(* order and, for every node with a complete configuration, runs           *)
(* fix_node(), which repairs the AUTO_INCREMENT attribute of users.id.     *)
(*                                                                         *)
(* The MySQL server is the environment.  Every database call either        *)
(* succeeds, raises mysql.connector.Error, or raises some other Exception; *)
(* the choice is nondeterministic.  The server's state (the attribute of   *)
(* users.id, the committed rows of users, the open connections) is kept    *)
(* per node, and DESCRIBE / SHOW CREATE TABLE report it truthfully.        *)
(***************************************************************************)
EXTENDS Integers, Sequences, FiniteSets

VARIABLES
    config,      \* nodes[name]: the connection settings read from the environment
    autoInc,     \* server: users.id carries AUTO_INCREMENT
    rows,        \* server: committed ids of the rows of users
    openConns,   \* server: connections opened by this process and not closed
    mpc,         \* position of the caller of fix_node
    i,           \* index of the node the for-loop of main is at
    results,     \* main's results dict, in insertion order
    summary,     \* what main printed as the summary
    pc,          \* position inside fix_node
    cur,         \* the node fix_node was called for
    ret,         \* value fix_node returned
    connected,   \* the local conn holds an open connection
    txn,         \* uncommitted change made through conn
    lastrowid,   \* cursor.lastrowid
    test_id,     \* the local test_id
    issued,      \* database calls made by this invocation, in order
    alterErr,    \* errno raised by the first ALTER of this invocation
    caught,      \* the except clause that ended this invocation
    marker,      \* outcome of the 'AUTO_INCREMENT' in create_table test
    pre,         \* server state of the node when fix_node was called
    calls,       \* number of fix_node calls made so far, per node
    firstRet     \* what the first call of the repeat driver returned

vars == <<config, autoInc, rows, openConns, mpc, i, results, summary, pc, cur,
          ret, connected, txn, lastrowid, test_id, issued, alterErr, caught,
          marker, pre, calls, firstRet>>

server == <<autoInc, rows, openConns>>
caller == <<config, mpc, i, results, summary, calls, firstRet>>

(***************************************************************************)
(* Bounds of the model.                                                    *)
(***************************************************************************)
\* fix_node is called at most this many times in a row by the repeat driver
MaxCalls == 3

\* ids of the rows users holds before the script runs
InitialRows == {1}

(***************************************************************************)
(* Strings, as sequences of characters.                                    *)
(***************************************************************************)
Digit(d) == <<"0", "1", "2", "3", "4", "5", "6", "7", "8", "9">>[d + 1]

\* str(n) of a non-negative integer
RECURSIVE DecimalStr(_)
DecimalStr(n) == IF n < 10 THEN <<Digit(n)>>
                 ELSE DecimalStr(n \div 10) \o <<Digit(n % 10)>>

\* Python's `pat in s` on strings
IsSubstring(pat, s) ==
    \E k \in 0..(Len(s) - Len(pat)) :
        \A j \in 1..Len(pat) : s[k + j] = pat[j]


(***************************************************************************)
(* The nodes table and the configuration check of main.                    *)
(***************************************************************************)
\* keys of the nodes dict, in the order the dict literal lists them
nodes == <<"Central (Node 0)", "Partition 1 (Node 1)", "Partition 2 (Node 2)">>

NodeIds == 1..Len(nodes)

\* what os.getenv returns for a variable that is not set (Python's None)
Unset == "<None>"

\* default of NODEn_PORT
DefaultPort == 3306

\* bool(v) of an Optional[str]
Truthy(v) == v # Unset /\ v # ""

CompleteConfig ==
    [host |-> "h", port |-> DefaultPort, user |-> "u", password |-> "p",
     database |-> "d"]

\* the configurations the environment may produce for a node: complete, one
\* variable not set, or the password set to the empty string
ConfigChoices ==
    {CompleteConfig,
     [CompleteConfig EXCEPT !.host = Unset],
     [CompleteConfig EXCEPT !.user = Unset],
     [CompleteConfig EXCEPT !.password = Unset],
     [CompleteConfig EXCEPT !.database = Unset],
     [CompleteConfig EXCEPT !.password = ""]}

\* the check with config['password'] left out of the list
ConfigCompleteNoPassword(c) ==
    \A f \in {"host", "user", "database"} : c[f] # Unset /\ c[f] # ""

\* all([config['host'], config['user'], config['password'], config['database']])
ConfigComplete(c) ==
    \A f \in {"host", "user", "password", "database"} : Truthy(c[f])

(***************************************************************************)
(* Errors of the database client.  str(e) of a mysql.connector.Error is    *)
(* "<errno> (<sqlstate>): <msg>".                                          *)
(***************************************************************************)
ErrMultiplePK ==
    [errno |-> 1068, sqlstate |-> <<"4", "2", "0", "0", "0">>,
     msg |-> <<"M", "u", "l", "t", "i", "p", "l", "e", " ", "P", "K">>]

\* ALTER command denied to a user whose name holds the digits 1068
ErrDenied ==
    [errno |-> 1142, sqlstate |-> <<"4", "2", "0", "0", "0">>,
     msg |-> <<"d", "e", "n", "i", "e", "d", " ", "u", "1", "0", "6", "8">>]

ErrLockWait ==
    [errno |-> 1205, sqlstate |-> <<"H", "Y", "0", "0", "0">>,
     msg |-> <<"L", "o", "c", "k", " ", "w", "a", "i", "t">>]

AlterErrors == {ErrMultiplePK, ErrDenied, ErrLockWait}

ErrStr(e) ==
    DecimalStr(e.errno) \o <<" ", "(">> \o e.sqlstate \o <<")", ":", " ">> \o e.msg

\* '1068' in str(e)
IsMultiplePKError(e) == IsSubstring(<<"1", "0", "6", "8">>, ErrStr(e))

\* the two except clauses of fix_node
Raised == {"Error", "Exception"}

(***************************************************************************)
(* What the server returns.                                                *)
(***************************************************************************)
\* rows of DESCRIBE users: (Field, Type, Null, Key, Default, Extra)
DescribeUsers(n) ==
    << <<"id", "int", "NO", "", "", IF autoInc[n] THEN "auto_increment" ELSE "">>,
       <<"firstname", "varchar", "YES", "", "", "">>,
       <<"lastname", "varchar", "YES", "", "", "">> >>

\* 'auto_increment' in extra.lower()
ExtraHasAutoIncrement(extra) == extra = "auto_increment"

\* the id column of DESCRIBE reports auto_increment
AlreadySet(columns) ==
    LET id_column == SelectSeq(columns, LAMBDA col : col[1] = "id") IN
      /\ Len(id_column) > 0
      /\ LET extra == IF Len(id_column[1]) > 5 THEN id_column[1][6] ELSE "" IN
           ExtraHasAutoIncrement(extra)

\* second column of the row SHOW CREATE TABLE users returns, as its words
ShowCreateTable(n) ==
    <<"CREATE", "TABLE", "users", "id", "int", "NOT", "NULL">>
    \o (IF autoInc[n] THEN <<"AUTO_INCREMENT">> ELSE <<>>)

\* 'AUTO_INCREMENT' in create_table
HasMarker(create_table) ==
    \E k \in 1..Len(create_table) : create_table[k] = "AUTO_INCREMENT"

Max(S) == CHOOSE x \in S : \A y \in S : y <= x

\* the id of a row inserted into users without an explicit id, which is also
\* what cursor.lastrowid reports: the next identifier when the column carries
\* AUTO_INCREMENT, and 0 (the column default, no identifier generated) when
\* it does not
GeneratedId(n) == IF autoInc[n] THEN Max(rows[n] \cup {0}) + 1 ELSE 0

NoTxn == [kind |-> "none", id |-> 0]

(***************************************************************************)
(* fix_node(node_name, config): one action per database call.  A call that *)
(* raises ends the invocation in one of the two except clauses, which      *)
(* return False; neither closes the connection.                            *)
(***************************************************************************)
\* fix_node without its `except Exception` clause: anything that is not a
\* mysql.connector.Error leaves fix_node and main as a traceback
RaiseEscapes(stmt, kind) ==
    /\ issued' = Append(issued, stmt)
    /\ caught' = IF kind = "Error" THEN kind ELSE "none"
    /\ ret' = FALSE
    /\ pc' = IF kind = "Error" THEN "returned" ELSE "raised"

\* the call `stmt` raised; `kind` is the except clause that catches it
Raise(stmt, kind) ==
    /\ issued' = Append(issued, stmt)
    /\ caught' = kind
    /\ ret' = FALSE
    /\ pc' = "returned"

\* the call `stmt` returned and the routine goes on at `next`
Proceed(stmt, next) ==
    /\ issued' = Append(issued, stmt)
    /\ pc' = next
    /\ UNCHANGED <<caught, ret>>

\* cursor.close(); conn.close(); return True.  Closing a cursor whose
\* result was read, and closing a connection, do not raise.
CloseAndReturnTrue(stmt) ==
    /\ issued' = issued \o <<stmt, "close">>
    /\ connected' = FALSE
    /\ openConns' = [openConns EXCEPT ![cur] = @ - 1]
    /\ ret' = TRUE
    /\ pc' = "returned"
    /\ UNCHANGED caught

\* conn = mysql.connector.connect(**config); cursor = conn.cursor()
Connect ==
    /\ pc = "connect"
    /\ \/ /\ connected' = TRUE
          /\ openConns' = [openConns EXCEPT ![cur] = @ + 1]
          /\ Proceed("connect", "describe")
       \/ /\ \E kind \in Raised : Raise("connect", kind)
          /\ UNCHANGED <<connected, openConns>>
    /\ UNCHANGED <<autoInc, rows, txn, lastrowid, test_id, alterErr, marker,
                   pre, cur, caller>>

\* cursor.execute("DESCRIBE users"); columns = cursor.fetchall(); the
\* already-set test and its early return
Describe ==
    /\ pc = "describe"
    /\ \/ IF AlreadySet(DescribeUsers(cur))
          THEN CloseAndReturnTrue("DESCRIBE")
          ELSE /\ Proceed("DESCRIBE", "alter_pk")
               /\ UNCHANGED <<connected, openConns>>
       \/ /\ \E kind \in Raised : Raise("DESCRIBE", kind)
          /\ UNCHANGED <<connected, openConns>>
    /\ UNCHANGED <<autoInc, rows, txn, lastrowid, test_id, alterErr, marker,
                   pre, cur, caller>>

\* ALTER TABLE users MODIFY COLUMN id INT AUTO_INCREMENT PRIMARY KEY, and the
\* except clause around it.  The server accepts the statement, or raises one
\* of AlterErrors, or the call raises something else.  What the table
\* definition shows after an accepted ALTER is the server's answer: the
\* routine itself provides for both (lines 82-85).
AlterPrimaryKey ==
    /\ pc = "alter_pk"
    /\ \/ /\ \E applied \in BOOLEAN : autoInc' = [autoInc EXCEPT ![cur] = applied]
          /\ Proceed("ALTER_PK", "commit_alter")
          /\ UNCHANGED alterErr
       \/ /\ \E e \in AlterErrors :
               /\ alterErr' = e.errno
               /\ IF IsMultiplePKError(e)
                  THEN Proceed("ALTER_PK", "alter_fallback")
                  ELSE Raise("ALTER_PK", "Error")
          /\ UNCHANGED autoInc
       \/ /\ Raise("ALTER_PK", "Exception")
          /\ UNCHANGED <<autoInc, alterErr>>
    /\ UNCHANGED <<rows, openConns, connected, txn, lastrowid, test_id, marker,
                   pre, cur, caller>>

\* ALTER TABLE users MODIFY COLUMN id INT AUTO_INCREMENT, issued from the
\* except clause of the first ALTER
AlterFallback ==
    /\ pc = "alter_fallback"
    /\ \/ /\ \E applied \in BOOLEAN : autoInc' = [autoInc EXCEPT ![cur] = applied]
          /\ Proceed("ALTER", "commit_alter")
       \/ /\ \E kind \in Raised : Raise("ALTER", kind)
          /\ UNCHANGED autoInc
    /\ UNCHANGED <<rows, openConns, connected, txn, lastrowid, test_id, alterErr,
                   marker, pre, cur, caller>>

\* conn.commit() after the ALTER
CommitAlter ==
    /\ pc = "commit_alter"
    /\ \/ Proceed("commit", "verify")
       \/ \E kind \in Raised : Raise("commit", kind)
    /\ UNCHANGED <<server, connected, txn, lastrowid, test_id, alterErr, marker,
                   pre, cur, caller>>

\* the verification step made fatal: a missing marker returns False
VerifyAborts ==
    /\ pc = "verify"
    /\ \/ /\ HasMarker(ShowCreateTable(cur))
          /\ marker' = "found"
          /\ issued' = Append(issued, "SHOW")
          /\ pc' = "insert"
          /\ UNCHANGED <<caught, ret>>
       \/ /\ ~HasMarker(ShowCreateTable(cur))
          /\ marker' = "missing"
          /\ issued' = Append(issued, "SHOW")
          /\ pc' = "returned"
          /\ ret' = FALSE
          /\ UNCHANGED caught
       \/ /\ \E kind \in Raised :
                /\ issued' = Append(issued, "SHOW")
                /\ caught' = kind
                /\ ret' = FALSE
                /\ pc' = "returned"
          /\ UNCHANGED marker
    /\ UNCHANGED <<server, connected, txn, lastrowid, test_id, alterErr, pre,
                   cur, caller>>

\* cursor.execute("SHOW CREATE TABLE users"); create_table =
\* cursor.fetchone()[1]; both branches of the marker test go on to the insert
Verify ==
    /\ pc = "verify"
    /\ \/ /\ marker' = IF HasMarker(ShowCreateTable(cur)) THEN "found" ELSE "missing"
          /\ Proceed("SHOW", "insert")
       \/ /\ \E kind \in Raised : Raise("SHOW", kind)
          /\ UNCHANGED marker
    /\ UNCHANGED <<server, connected, txn, lastrowid, test_id, alterErr, pre,
                   cur, caller>>

\* the test INSERT INTO users (...); ids identify the rows of users, so the
\* server accepts the row only under an id no row has yet
InsertTest ==
    /\ pc = "insert"
    /\ \/ /\ GeneratedId(cur) \notin rows[cur]
          /\ txn' = [kind |-> "insert", id |-> GeneratedId(cur)]
          /\ lastrowid' = GeneratedId(cur)
          /\ Proceed("INSERT", "commit_insert")
       \/ /\ \E kind \in Raised : Raise("INSERT", kind)
          /\ UNCHANGED <<txn, lastrowid>>
    /\ UNCHANGED <<server, connected, test_id, alterErr, marker, pre, cur, caller>>

\* a commit that makes inserts durable and drops deletes
CommittedInsertOnly(n) ==
    IF txn.kind = "insert" THEN rows[n] \cup {txn.id} ELSE rows[n]

\* Applying the uncommitted change of the connection to the rows of node n
Committed(n) ==
    CASE txn.kind = "insert" -> rows[n] \cup {txn.id}
      [] txn.kind = "delete" -> rows[n] \ {txn.id}
      [] OTHER -> rows[n]

\* conn.commit() after the insert; test_id = cursor.lastrowid
CommitInsert ==
    /\ pc = "commit_insert"
    /\ \/ /\ rows' = [rows EXCEPT ![cur] = Committed(cur)]
          /\ txn' = NoTxn
          /\ test_id' = lastrowid
          /\ Proceed("commit", "delete")
       \/ /\ \E kind \in Raised : Raise("commit", kind)
          /\ UNCHANGED <<rows, txn, test_id>>
    /\ UNCHANGED <<autoInc, openConns, connected, lastrowid, alterErr, marker,
                   pre, cur, caller>>

\* cursor.execute(f"DELETE FROM users WHERE id = {test_id}")
DeleteTest ==
    /\ pc = "delete"
    /\ \/ /\ txn' = IF test_id \in rows[cur]
                    THEN [kind |-> "delete", id |-> test_id] ELSE NoTxn
          /\ Proceed("DELETE", "commit_delete")
       \/ /\ \E kind \in Raised : Raise("DELETE", kind)
          /\ UNCHANGED txn
    /\ UNCHANGED <<server, connected, lastrowid, test_id, alterErr, marker, pre,
                   cur, caller>>

\* conn.commit() after the delete; cursor.close(); conn.close(); return True
CommitDelete ==
    /\ pc = "commit_delete"
    /\ \/ /\ rows' = [rows EXCEPT ![cur] = Committed(cur)]
          /\ txn' = NoTxn
          /\ CloseAndReturnTrue("commit")
       \/ /\ \E kind \in Raised : Raise("commit", kind)
          /\ UNCHANGED <<rows, txn, connected, openConns>>
    /\ UNCHANGED <<autoInc, lastrowid, test_id, alterErr, marker, pre, cur, caller>>

fix_node ==
    \/ Connect
    \/ Describe
    \/ AlterPrimaryKey
    \/ AlterFallback
    \/ CommitAlter
    \/ Verify
    \/ InsertTest
    \/ CommitInsert
    \/ DeleteTest
    \/ CommitDelete

(***************************************************************************)
(* Calling fix_node and leaving it.                                        *)
(***************************************************************************)
\* the locals of fix_node before its first statement
LocalsInit ==
    /\ connected' = FALSE
    /\ txn' = NoTxn
    /\ lastrowid' = 0
    /\ test_id' = 0
    /\ issued' = <<>>
    /\ alterErr' = 0
    /\ caught' = "none"
    /\ marker' = "unset"

\* fix_node(nodes[n], config[n]) is entered
Call(n) ==
    /\ pc' = "connect"
    /\ cur' = n
    /\ ret' = FALSE
    /\ LocalsInit
    /\ pre' = [autoInc |-> autoInc[n], rows |-> rows[n]]
    /\ calls' = [calls EXCEPT ![n] = @ + 1]

\* fix_node's frame is dropped.  A connection the routine did not close is
\* closed only if the interpreter happens to finalize the conn object; the
\* language does not say when it does.
Leave ==
    /\ pc' = "idle"
    /\ LocalsInit
    /\ \E finalized \in BOOLEAN :
          openConns' = IF connected /\ finalized
                       THEN [openConns EXCEPT ![cur] = @ - 1]
                       ELSE openConns
    /\ UNCHANGED <<autoInc, rows, cur, ret, pre>>

(***************************************************************************)
(* main()                                                                  *)
(***************************************************************************)
\* results[key] = value on a dict kept as its items in insertion order
DictSet(d, key, value) ==
    IF \E k \in 1..Len(d) : d[k][1] = key
    THEN [k \in 1..Len(d) |-> IF d[k][1] = key THEN <<key, value>> ELSE d[k]]
    ELSE Append(d, <<key, value>>)

\* the count without its `if success` filter
SuccessCountAll(d) == Len(d)

\* sum(1 for success in results.values() if success)
SuccessCount(d) == Cardinality({k \in 1..Len(d) : d[k][2]})

\* the per-node status lines of the summary
StatusLines(d) ==
    [k \in 1..Len(d) |-> <<d[k][1], IF d[k][2] THEN "FIXED" ELSE "FAILED">>]

\* the loop body for a node whose configuration is incomplete
MainSkip ==
    /\ mpc = "loop"
    /\ i <= Len(nodes)
    /\ ~ConfigComplete(config[i])
    /\ results' = DictSet(results, nodes[i], FALSE)
    /\ i' = i + 1
    /\ UNCHANGED <<config, mpc, summary, calls, firstRet, server, pc, cur, ret,
                   connected, txn, lastrowid, test_id, issued, alterErr, caught,
                   marker, pre>>

\* the loop body for a node whose configuration is complete: fix_node is called
MainCall ==
    /\ mpc = "loop"
    /\ i <= Len(nodes)
    /\ ConfigComplete(config[i])
    /\ mpc' = "in_fix_node"
    /\ Call(i)
    /\ UNCHANGED <<config, i, results, summary, firstRet, server>>

\* results[node_name] = fix_node(node_name, config)
MainRecord ==
    /\ mpc = "in_fix_node"
    /\ pc = "returned"
    /\ results' = DictSet(results, nodes[i], ret)
    /\ i' = i + 1
    /\ mpc' = "loop"
    /\ Leave
    /\ UNCHANGED <<config, summary, calls, firstRet>>

\* the summary printed after the loop
Summary ==
    /\ mpc = "loop"
    /\ i > Len(nodes)
    /\ summary' = [success_count |-> SuccessCount(results),
                   total_count |-> Len(results),
                   lines |-> StatusLines(results)]
    /\ mpc' = "done"
    /\ UNCHANGED <<config, i, results, calls, firstRet, server, pc, cur, ret,
                   connected, txn, lastrowid, test_id, issued, alterErr, caught,
                   marker, pre>>

main == MainSkip \/ MainCall \/ MainRecord \/ Summary

NoSummary == [success_count |-> 0, total_count |-> 0, lines |-> <<>>]

Init ==
    /\ config \in [NodeIds -> ConfigChoices]
    /\ autoInc \in [NodeIds -> BOOLEAN]
    /\ rows = [n \in NodeIds |-> InitialRows]
    /\ openConns = [n \in NodeIds |-> 0]
    /\ mpc = "loop"
    /\ i = 1
    /\ results = <<>>
    /\ summary = NoSummary
    /\ pc = "idle"
    /\ cur = 1
    /\ ret = FALSE
    /\ connected = FALSE
    /\ txn = NoTxn
    /\ lastrowid = 0
    /\ test_id = 0
    /\ issued = <<>>
    /\ alterErr = 0
    /\ caught = "none"
    /\ marker = "unset"
    /\ pre = [autoInc |-> FALSE, rows |-> {}]
    /\ calls = [n \in NodeIds |-> 0]
    /\ firstRet = "none"

Next == fix_node \/ main

Spec == Init /\ [][Next]_vars

(***************************************************************************)
(* fix_node run several times in a row on one node with a complete         *)
(* configuration.                                                          *)
(***************************************************************************)
RepeatCall ==
    /\ mpc = "repeat"
    /\ pc = "idle"
    /\ calls[cur] < MaxCalls
    /\ Call(cur)
    /\ UNCHANGED <<config, mpc, i, results, summary, firstRet, server>>

RepeatReturn ==
    /\ mpc = "repeat"
    /\ pc = "returned"
    /\ firstRet' = IF calls[cur] = 1
                   THEN (IF ret THEN "True" ELSE "False") ELSE firstRet
    /\ Leave
    /\ UNCHANGED <<config, mpc, i, results, summary, calls>>

InitRepeat ==
    /\ config = [n \in NodeIds |-> CompleteConfig]
    /\ autoInc \in [NodeIds -> BOOLEAN]
    /\ rows = [n \in NodeIds |-> InitialRows]
    /\ openConns = [n \in NodeIds |-> 0]
    /\ mpc = "repeat"
    /\ i = 1
    /\ results = <<>>
    /\ summary = NoSummary
    /\ pc = "idle"
    /\ cur \in NodeIds
    /\ ret = FALSE
    /\ connected = FALSE
    /\ txn = NoTxn
    /\ lastrowid = 0
    /\ test_id = 0
    /\ issued = <<>>
    /\ alterErr = 0
    /\ caught = "none"
    /\ marker = "unset"
    /\ pre = [autoInc |-> FALSE, rows |-> {}]
    /\ calls = [n \in NodeIds |-> 0]
    /\ firstRet = "none"

NextRepeat == fix_node \/ RepeatCall \/ RepeatReturn

SpecRepeat == InitRepeat /\ [][NextRepeat]_vars

\* a single thread that always takes its next step; every database call
\* returns or raises
SpecFair == Init /\ [][Next]_vars /\ WF_vars(Next)

(***************************************************************************)
(* Vocabulary of the properties.                                           *)
(***************************************************************************)
Returned == pc = "returned"

Issued(stmt) == \E k \in 1..Len(issued) : issued[k] = stmt

TimesIssued(stmt) == Cardinality({k \in 1..Len(issued) : issued[k] = stmt})

\* the repair path was taken: the routine went past the already-set test
Repaired == Issued("ALTER_PK")

\* DESCRIBE users returned its rows instead of raising
DescribeAnswered ==
    /\ Len(issued) >= 2
    /\ issued[2] = "DESCRIBE"
    /\ ~(Len(issued) = 2 /\ caught # "none")

\* the value recorded for a node in results
Recorded(n) ==
    LET k == CHOOSE k \in 1..Len(results) : results[k][1] = nodes[n] IN results[k][2]

HasEntry(n) == \E k \in 1..Len(results) : results[k][1] = nodes[n]

Fields == {"host", "user", "password", "database"}

(***************************************************************************)
(* C1: whenever fix_node returns True, users.id of that node carries       *)
(* AUTO_INCREMENT at that moment.                                          *)
(***************************************************************************)
C1_TrueImpliesAutoIncrement ==
    (Returned /\ ret) => autoInc[cur]

(***************************************************************************)
(* C2: when DESCRIBE reports auto_increment for id, fix_node returns True  *)
(* with no ALTER, INSERT, DELETE or commit issued and the schema and rows  *)
(* unchanged; and on a node where the first run returned True, every later *)
(* run that gets its DESCRIBE answered returns True and issues no ALTER.   *)
(***************************************************************************)
C2_AlreadySetReturnsUntouched ==
    (Returned /\ DescribeAnswered /\ pre.autoInc) =>
        /\ ret
        /\ issued = <<"connect", "DESCRIBE", "close">>
        /\ autoInc[cur] = pre.autoInc
        /\ rows[cur] = pre.rows

C2_Idempotent ==
    /\ C2_AlreadySetReturnsUntouched
    /\ (Returned /\ calls[cur] >= 2 /\ firstRet = "True" /\ DescribeAnswered) =>
          (ret /\ ~Issued("ALTER_PK") /\ ~Issued("ALTER"))

(***************************************************************************)
(* C3 as stated: a node with one of the four variables not set is never    *)
(* passed to fix_node and is recorded False; a node with all four set is   *)
(* passed to fix_node exactly once.                                        *)
(***************************************************************************)
C3_SkipIffVariableMissing ==
    \A n \in NodeIds :
        /\ (\E f \in Fields : config[n][f] = Unset) =>
              /\ calls[n] = 0
              /\ (mpc = "done" => HasEntry(n) /\ ~Recorded(n))
        /\ ((\A f \in Fields : config[n][f] # Unset) /\ mpc = "done") =>
              calls[n] = 1

(***************************************************************************)
(* C3 amended: a node with one of the four variables not set or empty is   *)
(* never passed to fix_node and is recorded False; a node whose four       *)
(* variables are all set and non-empty is passed to fix_node exactly once. *)
(***************************************************************************)
C3_SkipIffVariableBlank ==
    \A n \in NodeIds :
        /\ (\E f \in Fields : config[n][f] \in {Unset, ""}) =>
              /\ calls[n] = 0
              /\ (mpc = "done" => HasEntry(n) /\ ~Recorded(n))
        /\ (\A f \in Fields : config[n][f] \notin {Unset, ""}) =>
              /\ calls[n] <= 1
              /\ (mpc = "done" => calls[n] = 1)

C3_Witness ==
    /\ mpc = "done"
    /\ config[1].password = "" /\ calls[1] = 0 /\ ~Recorded(1)
    /\ config[2].host = Unset /\ calls[2] = 0 /\ ~Recorded(2)
    /\ config[3] = CompleteConfig /\ calls[3] = 1

(***************************************************************************)
(* C4: the fallback ALTER is issued if and only if the first ALTER failed  *)
(* with error 1068, at most once per invocation, and when it succeeds the  *)
(* routine commits and goes on to verification.                            *)
(***************************************************************************)
C4_FallbackIffMultiplePK ==
    /\ Issued("ALTER") => alterErr = 1068
    /\ (alterErr = 1068 /\ pc # "alter_fallback") => Issued("ALTER")
    /\ TimesIssued("ALTER") <= 1
    /\ \A k \in 1..Len(issued) :
          (issued[k] = "ALTER" /\ (k < Len(issued) \/ caught = "none")
              /\ pc # "commit_alter")
          => (k < Len(issued) /\ issued[k + 1] = "commit")

(***************************************************************************)
(* C5: when the first ALTER fails with a database error other than 1068,   *)
(* or the fallback ALTER fails, fix_node returns False with no commit, no  *)
(* SHOW CREATE TABLE, no INSERT and no DELETE issued.                      *)
(***************************************************************************)
C5_OtherAlterErrorFails ==
    (Returned /\ (alterErr \notin {0, 1068}
                  \/ (issued[Len(issued)] = "ALTER" /\ caught # "none"))) =>
        /\ ~ret
        /\ \A stmt \in {"commit", "SHOW", "INSERT", "DELETE"} : ~Issued(stmt)

(***************************************************************************)
(* C6: whatever the database calls of each node do, fix_node returns, main *)
(* decides for every node from that node's configuration alone whether to  *)
(* call fix_node, and the run reaches the summary with a result for every  *)
(* node.                                                                   *)
(***************************************************************************)
C6_RunReachesSummary ==
    <>(/\ mpc = "done"
       /\ \A n \in NodeIds :
             /\ HasEntry(n)
             /\ calls[n] = IF ConfigComplete(config[n]) THEN 1 ELSE 0)

C6_Witness ==
    /\ mpc = "done"
    /\ \A n \in NodeIds : calls[n] = 1
    /\ ~Recorded(1) /\ ~Recorded(2) /\ Recorded(3)

(***************************************************************************)
(* C7: at the summary, results holds one entry per node in the order of    *)
(* the nodes table, the total is the number of nodes, the success count is *)
(* the number of nodes recorded True, and every node is listed once, as    *)
(* FIXED exactly when it is recorded True.                                 *)
(***************************************************************************)
C7_SummaryMatchesResults ==
    mpc = "done" =>
        /\ Len(results) = Len(nodes)
        /\ \A k \in 1..Len(nodes) : results[k][1] = nodes[k]
        /\ summary.total_count = Len(nodes)
        /\ summary.success_count = Cardinality({n \in NodeIds : Recorded(n)})
        /\ Len(summary.lines) = Len(nodes)
        /\ \A n \in NodeIds :
              /\ Cardinality({k \in 1..Len(summary.lines) :
                                 summary.lines[k][1] = nodes[n]}) = 1
              /\ summary.lines[n] =
                    <<nodes[n], IF Recorded(n) THEN "FIXED" ELSE "FAILED">>

C7_Witness ==
    /\ mpc = "done"
    /\ summary.success_count = 2
    /\ summary.total_count = 3
    /\ Recorded(1) /\ ~Recorded(2) /\ Recorded(3)

(***************************************************************************)
(* C8: every return of fix_node leaves the connection it opened closed, no *)
(* more than one connection is ever open, and none is open at the summary. *)
(***************************************************************************)
C8_ConnectionsReleased ==
    /\ Returned => openConns[cur] = 0
    /\ openConns[1] + openConns[2] + openConns[3] <= 1
    /\ mpc = "done" => \A n \in NodeIds : openConns[n] = 0

(***************************************************************************)
(* C9: SHOW CREATE TABLE is issued only right after the commit that        *)
(* follows an accepted ALTER; once it has answered, the routine goes on to *)
(* the test INSERT whether or not the marker was found; and the value      *)
(* returned is True exactly when insert, commit, delete and commit all     *)
(* went through, whatever the marker test found.                           *)
(***************************************************************************)
C9_VerificationNotFatal ==
    /\ \A k \in 1..Len(issued) :
          issued[k] = "SHOW" =>
              /\ k > 2
              /\ issued[k - 1] = "commit"
              /\ issued[k - 2] \in {"ALTER_PK", "ALTER"}
    /\ marker # "unset" => (pc = "insert" \/ Issued("INSERT"))
    /\ (Returned /\ marker # "unset") =>
          (ret <=> /\ Len(issued) >= 5
                   /\ SubSeq(issued, Len(issued) - 4, Len(issued)) =
                         <<"INSERT", "commit", "DELETE", "commit", "close">>)

C9_Witness ==
    /\ Returned
    /\ ret
    /\ marker = "missing"
    /\ issued = <<"connect", "DESCRIBE", "ALTER_PK", "commit", "SHOW", "INSERT",
                  "commit", "DELETE", "commit", "close">>

(***************************************************************************)
(* C10: when fix_node returns True after the repair path, the test row was *)
(* deleted by the identifier the insert generated and the deletion was     *)
(* committed, so users holds the rows it held before the call; when a step *)
(* after a commit fails, fix_node returns False and what was committed     *)
(* stays: the test row once its insert is committed, the column change     *)
(* once verification has seen it.                                          *)
(***************************************************************************)
C10_SmokeTestResidue ==
    /\ (Returned /\ ret /\ Repaired) =>
          /\ test_id = lastrowid
          /\ test_id \notin pre.rows
          /\ test_id \notin rows[cur]
          /\ rows[cur] = pre.rows
          /\ txn = NoTxn
    /\ (Returned /\ ~ret /\ Issued("DELETE")) =>
          /\ test_id \in rows[cur]
          /\ rows[cur] = pre.rows \cup {test_id}
    /\ (Returned /\ ~ret /\ ~Issued("DELETE")) => rows[cur] = pre.rows
    /\ (Returned /\ ~ret /\ marker = "found") => autoInc[cur]

C10_Witness ==
    /\ Returned
    /\ ~ret
    /\ marker = "found"
    /\ issued = <<"connect", "DESCRIBE", "ALTER_PK", "commit", "SHOW", "INSERT",
                  "commit", "DELETE", "commit">>
    /\ rows[cur] = pre.rows \cup {test_id}

====
